---- MODULE Spec2Model ----
(***************************************************************************)
(* QC scoring pipeline of QC-Dashboard-2.                                  *)
(*                                                                         *)
(* 1raw_load.py turns the raw ticket export into cleaned_intermediate.csv  *)
(* and 2scoring_logic.py reads that file, scores every ticket on thirteen  *)
(* checkpoints and writes processed_tickets.csv.  Both scripts are         *)
(* modelled statement by statement over a small data frame.                *)
(*                                                                         *)
(* Texts are TLA+ strings and every keyword test is a real substring       *)
(* search on the lower-cased text, as in the source.  Durations are kept   *)
(* in hundredths of an hour (4.01 h is 401), timestamps in the same unit.  *)
(***************************************************************************)
EXTENDS Integers, Sequences, FiniteSets, TLC

(***************************************************************************)
(* Cells of a data frame.                                                  *)
(*   k = "str"  a Python str, s its characters                             *)
(*   k = "num"  a number, n its value (durations: hundredths of an hour)   *)
(*   k = "ts"   a timestamp, n its value                                   *)
(*   k = "nan"  the missing value (NaN / NaT)                              *)
(***************************************************************************)
StrV(s) == [k |-> "str", s |-> s, n |-> 0]
NumV(n) == [k |-> "num", s |-> "", n |-> n]
TsV(n) == [k |-> "ts", s |-> "", n |-> n]
NaN == [k |-> "nan", s |-> "", n |-> 0]

(***************************************************************************)
(* Python string primitives.                                               *)
(***************************************************************************)
LowerMap ==
  [A |-> "a", B |-> "b", C |-> "c", D |-> "d", E |-> "e", F |-> "f",
   G |-> "g", H |-> "h", I |-> "i", J |-> "j", K |-> "k", L |-> "l",
   M |-> "m", N |-> "n", O |-> "o", P |-> "p", Q |-> "q", R |-> "r",
   S |-> "s", T |-> "t", U |-> "u", V |-> "v", W |-> "w", X |-> "x",
   Y |-> "y", Z |-> "z"]

CharAt(s, i) == SubSeq(s, i, i)

LowerChar(c) == IF c \in DOMAIN LowerMap THEN LowerMap[c] ELSE c

\* the characters lo..hi of s lower-cased, by halves to keep the nesting low
RECURSIVE LowerRange(_, _, _)
LowerRange(s, lo, hi) ==
  IF lo > hi THEN ""
  ELSE IF lo = hi THEN LowerChar(CharAt(s, lo))
  ELSE LET mid == (lo + hi) \div 2
       IN  LowerRange(s, lo, mid) \o LowerRange(s, mid + 1, hi)

\* str.lower()
Lower(s) == LowerRange(s, 1, Len(s))

\* k in t
IsSubstr(k, t) ==
  \E i \in 1..(Len(t) - Len(k) + 1) : SubSeq(t, i, i + Len(k) - 1) = k

Digits == <<"0", "1", "2", "3", "4", "5", "6", "7", "8", "9">>

\* str(n) for an int n >= 0
RECURSIVE NatToStr(_)
NatToStr(n) ==
  IF n < 10 THEN Digits[n + 1] ELSE NatToStr(n \div 10) \o Digits[(n % 10) + 1]

IntToStr(n) == IF n < 0 THEN "-" \o NatToStr(-n) ELSE NatToStr(n)

\* str(x) for a cell x: str(nan) is "nan".  The text, category, priority and
\* timeline cells it is applied to hold a str, NaN or, when read_csv found
\* only whole numbers in their column, an int.
PyStr(x) ==
  CASE x.k = "str" -> x.s
    [] x.k = "nan" -> "nan"
    [] x.k = "num" -> IntToStr(x.n)
    [] OTHER -> "timestamp"

\* bool(x): the empty string and zero are falsy, NaN is truthy
Truthy(x) ==
  CASE x.k = "str" -> x.s # ""
    [] x.k = "num" -> x.n # 0
    [] OTHER -> TRUE

\* str(text or "")
StrOrEmpty(x) == IF Truthy(x) THEN PyStr(x) ELSE ""

\* pd.isna(x)
IsNa(x) == x.k = "nan"

(***************************************************************************)
(* Keyword tables.                                                         *)
(***************************************************************************)
PHR_HOLD == <<"placed the ticket on hold", "on hold awaiting your response">>
PHR_STRIKE1 == <<"strike 1", "first reminder", "this is a reminder">>
PHR_STRIKE2 == <<"strike 2", "second reminder">>
PHR_STRIKE3 == <<"strike 3", "final reminder", "final notice">>
PHR_CLOSURE ==
  <<"closure email", "closing the ticket", "soft closing",
    "resolve/close the ticket">>
PHR_CONTACT ==
  <<"connect chat", "+1 713 430 1333", "+44 1224 85 1333", "+61 8 6314 2333">>
RESOLUTION_HEADERS ==
  <<"issue reported:", "probable cause:", "resolution provided:">>
PHR_TEAMS == <<"teams", "ms teams", "microsoft teams">>
PHR_CONFIRM == <<"user confirmed", "client confirmed", "thank you", "thanks">>
PHR_SCREENSHOT == <<"attachment", "screenshot", ".png", ".jpg", ".jpeg">>
BAD_LANGUAGE == <<"idiot", "nonsense", "stupid", "shit", "fuck">>
PHR_READ_PREV == <<"as per previous", "see previous", "deployment notes">>
PHR_ROUTING == <<"wrong queue", "misrouted", "incorrect routing", "reassign">>
PHR_HANDOVER == <<"handed over to", "transferred to">>
PHR_ENGAGED == <<"working with user", "followed up", "i contacted">>
PHR_DOC_SHARE == <<"sharepoint", "confluence", "\\\\", "/sites/">>
PHR_CLIENT == <<"user confirmed", "client confirmed", "issue resolved">>

(***************************************************************************)
(* Utility functions.                                                      *)
(***************************************************************************)
\* any(k.lower() in t for k in kws), t already a string
AnyIn(kws, t) == \E j \in 1..Len(kws) : IsSubstr(Lower(kws[j]), t)

contains(text, kws) == AnyIn(kws, Lower(StrOrEmpty(text)))

\* the number of places of t where k occurs
Occurrences(k, t) ==
  Cardinality({p \in 1..(Len(t) - Len(k) + 1) :
                 SubSeq(t, p, p + Len(k) - 1) = k})

RECURSIVE SumOccurrences(_, _, _)
SumOccurrences(kws, j, t) ==
  IF j = 0 THEN 0
  ELSE SumOccurrences(kws, j - 1, t) + Occurrences(Lower(kws[j]), t)

\* hits counted per occurrence: a phrase occurring twice is two hits
count_hits_per_occurrence(text, kws) ==
  SumOccurrences(kws, Len(kws), Lower(StrOrEmpty(text)))

count_hits(text, kws) ==
  LET t == Lower(StrOrEmpty(text))
  IN  Cardinality({j \in 1..Len(kws) : IsSubstr(Lower(kws[j]), t)})

(***************************************************************************)
(* float(x): a number is itself, NaN converts to the float nan without     *)
(* raising, a str converts when it is a decimal numeral of whole hours and *)
(* raises ValueError otherwise.                                            *)
(***************************************************************************)
DigitVal ==
  [c \in {"0", "1", "2", "3", "4", "5", "6", "7", "8", "9"} |->
     CASE c = "0" -> 0 [] c = "1" -> 1 [] c = "2" -> 2 [] c = "3" -> 3
       [] c = "4" -> 4 [] c = "5" -> 5 [] c = "6" -> 6 [] c = "7" -> 7
       [] c = "8" -> 8 [] OTHER -> 9]

IsNumeral(s) ==
  /\ Len(s) > 0
  /\ \A i \in 1..Len(s) : CharAt(s, i) \in DOMAIN DigitVal

RECURSIVE NumeralValue(_, _)
NumeralValue(s, i) ==
  IF i = 0 THEN 0 ELSE 10 * NumeralValue(s, i - 1) + DigitVal[CharAt(s, i)]

FloatRaises(x) == x.k = "str" /\ ~IsNumeral(x.s)

\* the float float(x) yields when it does not raise: a "num" or the nan
FloatOf(x) ==
  CASE x.k = "num" -> x
    [] x.k = "str" -> NumV(100 * NumeralValue(x.s, Len(x.s)))
    [] OTHER -> NaN

\* x <= h and x > h on floats, h in hours: every comparison with nan is False
LeHours(x, h) == x.k = "num" /\ x.n <= 100 * h
GtHours(x, h) == x.k = "num" /\ x.n > 100 * h

(***************************************************************************)
(* Detection functions.                                                    *)
(***************************************************************************)
detect_resolution_format(text) ==
  LET t == Lower(PyStr(text))
  IN  \A j \in 1..Len(RESOLUTION_HEADERS) : IsSubstr(RESOLUTION_HEADERS[j], t)

\* the workflow check without its contact-information requirement
detect_three_strike_flow_no_contact(full_text) ==
  LET t == StrV(Lower(PyStr(full_text)))
  IN  /\ contains(t, PHR_HOLD)
      /\ \/ contains(t, PHR_STRIKE1)
         \/ contains(t, PHR_STRIKE2)
         \/ contains(t, PHR_STRIKE3)
      /\ contains(t, PHR_CLOSURE)

detect_three_strike_flow(full_text) ==
  LET t == StrV(Lower(PyStr(full_text)))
  IN  IF ~contains(t, PHR_HOLD) THEN FALSE
      ELSE IF ~(contains(t, PHR_STRIKE1) \/ contains(t, PHR_STRIKE2)
                \/ contains(t, PHR_STRIKE3)) THEN FALSE
      ELSE IF ~contains(t, PHR_CLOSURE) THEN FALSE
      ELSE IF ~contains(t, PHR_CONTACT) THEN FALSE
      ELSE TRUE

detect_screenshot(full_text) == contains(full_text, PHR_SCREENSHOT)

detect_teams_confirmation(full_text) ==
  IF contains(full_text, PHR_TEAMS) /\ contains(full_text, PHR_CONFIRM) THEN 5
  ELSE IF contains(full_text, PHR_TEAMS) THEN 3
  ELSE 0

(***************************************************************************)
(* The thirteen checkpoint scorers.                                        *)
(***************************************************************************)
\* checkpoint 1 comparing the category without lower-casing it
score_category_case_sensitive(category, notes) ==
  IF ~Truthy(category) THEN 0
  ELSE LET cat == PyStr(category)
           txt == Lower(PyStr(notes))
       IN  IF IsSubstr(cat, txt) THEN 5
           ELSE IF Len(txt) > 80 THEN 3
           ELSE 0

score_category(category, notes) ==
  IF ~Truthy(category) THEN 0
  ELSE LET cat == Lower(PyStr(category))
           txt == Lower(PyStr(notes))
       IN  IF IsSubstr(cat, txt) THEN 5
           ELSE IF Len(txt) > 80 THEN 3
           ELSE 0

score_subcategory(subcat, notes) ==
  IF ~Truthy(subcat) THEN 0
  ELSE LET sub == Lower(PyStr(subcat))
           txt == Lower(PyStr(notes))
       IN  IF IsSubstr(sub, txt) THEN 5
           ELSE IF Len(txt) > 80 THEN 3
           ELSE 0

score_read_prev(full_text) ==
  IF contains(full_text, PHR_READ_PREV) THEN 5
  ELSE IF Len(PyStr(full_text)) > 150 THEN 3
  ELSE 0

\* a routing score graded by the number of hits: two hits leave one point
score_routing_graded(full_text) ==
  LET hits == count_hits(full_text, PHR_ROUTING)
  IN  IF hits = 0 THEN 5
      ELSE IF hits <= 1 THEN 3
      ELSE IF hits = 2 THEN 1
      ELSE 0

score_routing(full_text) ==
  LET hits == count_hits(full_text, PHR_ROUTING)
  IN  IF hits = 0 THEN 5
      ELSE IF hits <= 1 THEN 3
      ELSE 0

score_ownership(full_text) ==
  IF contains(full_text, PHR_HANDOVER) THEN 2
  ELSE IF contains(full_text, PHR_ENGAGED) THEN 5
  ELSE 3

\* hours <= 4 on a str raises TypeError
score_timely_raises(hours) == hours.k = "str"

\* checkpoint 6 with exclusive boundaries
score_timely_exclusive(hours) ==
  IF IsNa(hours) THEN 3
  ELSE IF hours.k = "num" /\ hours.n < 100 * 4 THEN 5
  ELSE IF hours.k = "num" /\ hours.n < 100 * 24 THEN 3
  ELSE 0

score_timely(hours) ==
  IF IsNa(hours) THEN 3
  ELSE IF LeHours(hours, 4) THEN 5
  ELSE IF LeHours(hours, 24) THEN 3
  ELSE 0

\* checkpoint 7 with exclusive thresholds
score_priority_exclusive(priority, mttr) ==
  LET p == Lower(PyStr(priority))
  IN  IF FloatRaises(mttr) THEN 3
      ELSE LET m == FloatOf(mttr)
           IN  IF IsSubstr("p1", p)
               THEN (IF m.k = "num" /\ m.n < 400 THEN 5 ELSE 2)
               ELSE IF IsSubstr("p2", p)
               THEN (IF m.k = "num" /\ m.n < 800 THEN 5 ELSE 3)
               ELSE (IF m.k = "num" /\ m.n < 7200 THEN 5 ELSE 2)

score_priority(priority, mttr) ==
  LET p == Lower(PyStr(priority))
  IN  IF FloatRaises(mttr) THEN 3
      ELSE LET m == FloatOf(mttr)
           IN  IF IsSubstr("p1", p) THEN (IF LeHours(m, 4) THEN 5 ELSE 2)
               ELSE IF IsSubstr("p2", p) THEN (IF LeHours(m, 8) THEN 5 ELSE 3)
               ELSE (IF LeHours(m, 72) THEN 5 ELSE 2)

\* checkpoint 8 with the perfect case granted without the workflow
score_email_format_contact_only(full_text, resolution_notes) ==
  LET t == StrV(Lower(PyStr(full_text)))
      resolution_ok == detect_resolution_format(resolution_notes)
      strike_ok == detect_three_strike_flow(t)
      contact_ok == contains(t, PHR_CONTACT)
  IN  IF resolution_ok /\ contact_ok THEN 5
      ELSE IF resolution_ok \/ strike_ok \/ contact_ok THEN 3
      ELSE 0

score_email_format(full_text, resolution_notes) ==
  LET t == StrV(Lower(PyStr(full_text)))
      resolution_ok == detect_resolution_format(resolution_notes)
      strike_ok == detect_three_strike_flow(t)
      contact_ok == contains(t, PHR_CONTACT)
  IN  IF resolution_ok /\ strike_ok /\ contact_ok THEN 5
      ELSE IF resolution_ok \/ strike_ok \/ contact_ok THEN 3
      ELSE 0

score_teams_text(full_text) == detect_teams_confirmation(full_text)

\* checkpoint 10 testing the workflow before the screenshot
score_screenshot_field_flow_first(full_text) ==
  IF detect_three_strike_flow(full_text) THEN 0
  ELSE IF detect_screenshot(full_text) THEN 5
  ELSE 3

score_screenshot_field(full_text) ==
  IF detect_screenshot(full_text) THEN 5
  ELSE IF detect_three_strike_flow(full_text) THEN 0
  ELSE 3

score_doc_share(full_text) ==
  IF contains(full_text, PHR_DOC_SHARE) THEN 5 ELSE 0

\* checkpoint 12 testing the timeline before the blacklist
score_compliance_timeline_first(full_text, mttr, timeline) ==
  LET t == Lower(PyStr(full_text))
      tl == Lower(PyStr(timeline))
  IN  IF IsSubstr("met", tl) THEN 5
      ELSE IF \E j \in 1..Len(BAD_LANGUAGE) : IsSubstr(BAD_LANGUAGE[j], t)
      THEN 0
      ELSE IF IsSubstr("breach", tl) THEN 2
      ELSE IF ~FloatRaises(mttr) /\ GtHours(FloatOf(mttr), 72) THEN 2
      ELSE 5

score_compliance(full_text, mttr, timeline) ==
  LET t == Lower(PyStr(full_text))
      tl == Lower(PyStr(timeline))
  IN  IF \E j \in 1..Len(BAD_LANGUAGE) : IsSubstr(BAD_LANGUAGE[j], t) THEN 0
      ELSE IF IsSubstr("met", tl) THEN 5
      ELSE IF IsSubstr("breach", tl) THEN 2
      ELSE IF ~FloatRaises(mttr) /\ GtHours(FloatOf(mttr), 72) THEN 2
      ELSE 5

score_client_notes(full_text) ==
  IF contains(full_text, PHR_CLIENT) THEN 5 ELSE 0

(***************************************************************************)
(* Data frames.  A frame is its set of column names and its rows, each row *)
(* a function from the column names to cells.                              *)
(***************************************************************************)
HasCol(f, c) == c \in f.cols

\* df[c] = the per-row values vals (a sequence as long as the frame)
SetCol(f, c, vals) ==
  [cols |-> f.cols \cup {c},
   rows |-> [i \in 1..Len(f.rows) |->
               [d \in f.cols \cup {c} |->
                  IF d = c THEN vals[i] ELSE f.rows[i][d]]]]

NoFrame == [cols |-> {}, rows |-> <<>>]

(***************************************************************************)
(* 1raw_load.py                                                            *)
(***************************************************************************)
RECURSIVE StripLeft(_)
StripLeft(s) ==
  IF Len(s) > 0 /\ CharAt(s, 1) = " " THEN StripLeft(SubSeq(s, 2, Len(s)))
  ELSE s

RECURSIVE StripRight(_)
StripRight(s) ==
  IF Len(s) > 0 /\ CharAt(s, Len(s)) = " "
  THEN StripRight(SubSeq(s, 1, Len(s) - 1))
  ELSE s

RECURSIVE ReplaceRange(_, _, _, _, _)
ReplaceRange(s, lo, hi, a, b) ==
  IF lo > hi THEN ""
  ELSE IF lo = hi THEN (IF CharAt(s, lo) = a THEN b ELSE CharAt(s, lo))
  ELSE LET mid == (lo + hi) \div 2
       IN  ReplaceRange(s, lo, mid, a, b) \o ReplaceRange(s, mid + 1, hi, a, b)

\* str.replace(a, b) for a single character a
Replace(s, a, b) == ReplaceRange(s, 1, Len(s), a, b)

\* one column name through .str.strip().str.lower().str.replace(...)
NormalizeName(h) ==
  LET a == Lower(StripRight(StripLeft(h)))
      b == Replace(a, " ", "_")
      c == Replace(b, "/", "_")
  IN  Replace(c, "-", "_")

normalize_columns(f) ==
  LET newcols == {NormalizeName(h) : h \in f.cols}
      Old(c) == CHOOSE h \in f.cols : NormalizeName(h) = c
  IN  [cols |-> newcols,
       rows |-> [i \in 1..Len(f.rows) |->
                   [c \in newcols |-> f.rows[i][Old(c)]]]]

TEXT_COLS ==
  <<"short_description", "work_notes", "comments", "comments_and_work_notes",
    "resolution_notes", "timeline">>

\* fillna("").astype(str) on one cell
FillNaStr(x) == IF IsNa(x) THEN StrV("") ELSE StrV(PyStr(x))

RECURSIVE clean_text_from(_, _)
clean_text_from(f, j) ==
  IF j > Len(TEXT_COLS) THEN f
  ELSE LET c == TEXT_COLS[j]
       IN  IF HasCol(f, c)
           THEN clean_text_from(
                  SetCol(f, c, [i \in 1..Len(f.rows) |->
                                  FillNaStr(f.rows[i][c])]), j + 1)
           ELSE clean_text_from(f, j + 1)

clean_text(f) == clean_text_from(f, 1)

\* pd.to_datetime(x) guarded by except: a timestamp stays, a missing value
\* and a text that is no date both become NaT
to_dt(x) == IF x.k = "ts" THEN x ELSE NaN

DATE_COLS == <<"opened", "updated", "resolved_at", "closed_at">>

RECURSIVE parse_dates_from(_, _)
parse_dates_from(f, j) ==
  IF j > Len(DATE_COLS) THEN f
  ELSE LET c == DATE_COLS[j]
       IN  IF HasCol(f, c)
           THEN parse_dates_from(
                  SetCol(f, c, [i \in 1..Len(f.rows) |-> to_dt(f.rows[i][c])]),
                  j + 1)
           ELSE parse_dates_from(f, j + 1)

\* (a - b).dt.total_seconds() / 3600 on one row: NaT in, NaN out
HoursBetween(a, b) ==
  IF a.k = "ts" /\ b.k = "ts" THEN NumV(a.n - b.n) ELSE NaN

DurationCol(f, later, earlier) ==
  IF HasCol(f, later) /\ HasCol(f, earlier)
  THEN [i \in 1..Len(f.rows) |->
          HoursBetween(f.rows[i][later], f.rows[i][earlier])]
  ELSE [i \in 1..Len(f.rows) |-> NaN]

process_datetime(f) ==
  LET g == parse_dates_from(f, 1)
      h == SetCol(g, "mttr_hours", DurationCol(g, "resolved_at", "opened"))
  IN  SetCol(h, "response_time_hours", DurationCol(h, "updated", "opened"))

\* df.get(c, "") on one row
GetOrEmpty(f, i, c) == IF HasCol(f, c) THEN f.rows[i][c].s ELSE ""

build_unified_notes(f) ==
  SetCol(f, "unified_text",
         [i \in 1..Len(f.rows) |->
            StrV(GetOrEmpty(f, i, "work_notes") \o "\n"
                 \o GetOrEmpty(f, i, "resolution_notes") \o "\n"
                 \o GetOrEmpty(f, i, "comments_and_work_notes") \o "\n"
                 \o GetOrEmpty(f, i, "comments"))])

(***************************************************************************)
(* The intermediate CSV file.  to_csv writes a missing value as an empty   *)
(* field and a timestamp as its text; read_csv reads an empty field, and   *)
(* every field spelling a missing value, as NaN.                           *)
(***************************************************************************)
NA_VALUES ==
  {"", "#N/A", "#N/A N/A", "#NA", "-1.#IND", "-1.#QNAN", "-NaN", "-nan",
   "1.#IND", "1.#QNAN", "<NA>", "N/A", "NA", "NULL", "NaN", "None", "n/a",
   "nan", "null"}

WriteCell(x) ==
  CASE x.k = "nan" -> StrV("")
    [] x.k = "ts" -> StrV("timestamp")
    [] OTHER -> x

IsNaField(x) == x.k = "str" /\ x.s \in NA_VALUES

IsNumberField(x) == x.k = "num" \/ (x.k = "str" /\ IsNumeral(x.s))

\* read_csv types a column by all its fields: it is a column of numbers when
\* every field that is not a missing value is a number, else a column of str
NumericColumn(file, c) ==
  \A i \in 1..Len(file.rows) :
    IsNaField(file.rows[i][c]) \/ IsNumberField(file.rows[i][c])

ReadCell(x, numeric) ==
  IF IsNaField(x) THEN NaN
  ELSE IF numeric
  THEN (IF x.k = "str" THEN NumV(NumeralValue(x.s, Len(x.s))) ELSE x)
  ELSE (IF x.k = "num" THEN StrV(IntToStr(x.n)) ELSE x)

to_csv(f) ==
  [cols |-> f.cols,
   rows |-> [i \in 1..Len(f.rows) |->
               [c \in f.cols |-> WriteCell(f.rows[i][c])]]]

read_csv(file) ==
  [cols |-> file.cols,
   rows |-> [i \in 1..Len(file.rows) |->
               [c \in file.cols |->
                  ReadCell(file.rows[i][c], NumericColumn(file, c))]]]

(***************************************************************************)
(* 2scoring_logic.py, main()                                               *)
(***************************************************************************)
UNIFIED_COLS ==
  <<"resolution_notes", "work_notes", "comments_and_work_notes", "comments">>

\* df.get(c, "").fillna("") on one row of an existing column
FillNa(x) == IF IsNa(x) THEN "" ELSE PyStr(x)

\* what df.get(c, "").fillna("") + "\n" raises for one column: the default ""
\* of an absent column has no fillna, and a column read as numbers cannot be
\* added to a str
ColError(f, c) ==
  IF ~HasCol(f, c) THEN "AttributeError"
  ELSE IF \E i \in 1..Len(f.rows) : f.rows[i][c].k = "num" THEN "TypeError"
  ELSE ""

\* the exception of the concatenation, evaluated left to right, "" if none
unified_error(f) ==
  LET e == [j \in 1..Len(UNIFIED_COLS) |-> ColError(f, UNIFIED_COLS[j])]
      bad == {j \in 1..Len(UNIFIED_COLS) : e[j] # ""}
  IN  IF bad = {} THEN ""
      ELSE e[CHOOSE j \in bad : \A k \in bad : j <= k]

unified(f) ==
  [i \in 1..Len(f.rows) |->
     StrV(FillNa(f.rows[i]["resolution_notes"]) \o "\n"
          \o FillNa(f.rows[i]["work_notes"]) \o "\n"
          \o FillNa(f.rows[i]["comments_and_work_notes"]) \o "\n"
          \o FillNa(f.rows[i]["comments"]))]

\* the thirteen score columns: df.apply(lambda r: ..., axis=1) and
\* df.<column>.apply(...), one score per row
qc_category(f) ==
  [i \in 1..Len(f.rows) |->
     NumV(score_category(f.rows[i]["category"], f.rows[i]["resolution_notes"]))]

qc_sub_cat(f) ==
  [i \in 1..Len(f.rows) |->
     NumV(score_subcategory(f.rows[i]["subcategory"],
                            f.rows[i]["resolution_notes"]))]

qc_read_prev(f) ==
  [i \in 1..Len(f.rows) |->
     NumV(score_read_prev(f.rows[i]["unified"]))]

qc_routing(f) ==
  [i \in 1..Len(f.rows) |->
     NumV(score_routing(f.rows[i]["unified"]))]

qc_ownership(f) ==
  [i \in 1..Len(f.rows) |->
     NumV(score_ownership(f.rows[i]["unified"]))]

qc_timely(f) ==
  [i \in 1..Len(f.rows) |->
     NumV(score_timely(f.rows[i]["response_time_hours"]))]

qc_priority(f) ==
  [i \in 1..Len(f.rows) |->
     NumV(score_priority(f.rows[i]["priority"], f.rows[i]["mttr_hours"]))]

\* checkpoint 8 with the section headers looked for in the unified text
qc_email_format_headers_anywhere(f) ==
  [i \in 1..Len(f.rows) |->
     NumV(score_email_format(f.rows[i]["unified"], f.rows[i]["unified"]))]

qc_email_format(f) ==
  [i \in 1..Len(f.rows) |->
     NumV(score_email_format(f.rows[i]["unified"],
                             f.rows[i]["resolution_notes"]))]

qc_teams(f) ==
  [i \in 1..Len(f.rows) |->
     NumV(score_teams_text(f.rows[i]["unified"]))]

qc_screenshot(f) ==
  [i \in 1..Len(f.rows) |->
     NumV(score_screenshot_field(f.rows[i]["unified"]))]

qc_doc_share(f) ==
  [i \in 1..Len(f.rows) |->
     NumV(score_doc_share(f.rows[i]["unified"]))]

\* checkpoint 12 with a timeline saying "breach" never scored 5
qc_compliance_breach_first(f) ==
  [i \in 1..Len(f.rows) |->
     LET score == score_compliance(f.rows[i]["unified"],
                                   f.rows[i]["mttr_hours"],
                                   f.rows[i]["timeline"])
     IN  IF score = 5
            /\ IsSubstr("breach", Lower(PyStr(f.rows[i]["timeline"])))
         THEN NumV(2)
         ELSE NumV(score)]

qc_compliance(f) ==
  [i \in 1..Len(f.rows) |->
     NumV(score_compliance(f.rows[i]["unified"], f.rows[i]["mttr_hours"],
                           f.rows[i]["timeline"]))]

qc_client_notes(f) ==
  [i \in 1..Len(f.rows) |->
     NumV(score_client_notes(f.rows[i]["unified"]))]

\* c.startswith("qc_")
StartsWithQc(c) == Len(c) >= 3 /\ SubSeq(c, 1, 3) = "qc_"

\* the qc_ columns without the one the export brought along
qc_cols_written(f) == {c \in f.cols : StartsWithQc(c) /\ c # "qc_manual"}

qc_cols(f) == {c \in f.cols : StartsWithQc(c)}

RECURSIVE SumCells(_, _)
SumCells(r, cs) ==
  IF cs = {} THEN 0
  ELSE LET c == CHOOSE d \in cs : TRUE
       IN  (IF r[c].k = "num" THEN r[c].n ELSE 0) + SumCells(r, cs \ {c})

\* df[qc_cols].sum(axis=1)
qc_total_65(f, cs) == [i \in 1..Len(f.rows) |-> NumV(SumCells(f.rows[i], cs))]

\* round(total / 65 * 100, 1), in tenths of a percent.  total * 1000 / 65 is
\* never halfway between two integers, so rounding is to the nearest one.
Round1(total) == (2000 * total + 65) \div 130

qc_percent(f) ==
  [i \in 1..Len(f.rows) |-> NumV(Round1(f.rows[i]["qc_total_65"].n))]

(***************************************************************************)
(* State.                                                                  *)
(*   raw   data/tickets_raw.xlsx                                           *)
(*   df    the data frame of the running script                            *)
(*   csv   data/cleaned_intermediate.csv                                   *)
(*   cols  the list qc_cols of main(), once computed                       *)
(*   out   data/processed_tickets.csv                                      *)
(*   pc    the statement about to run; "done", or "failed" after a raise   *)
(*   err   the exception that ended the run                                *)
(***************************************************************************)
VARIABLES raw, df, csv, cols, out, pc, err

vars == <<raw, df, csv, cols, out, pc, err>>

\* a statement that cannot raise
Stmt(here, next, newdf) ==
  /\ pc = here
  /\ df' = newdf
  /\ pc' = next
  /\ UNCHANGED <<raw, csv, cols, out, err>>

\* a statement that computes the column vals from the columns in needed:
\* reading an absent column raises AttributeError and ends the run
ColStmt(here, next, needed, col, vals) ==
  /\ pc = here
  /\ IF needed \subseteq df.cols
     THEN /\ df' = SetCol(df, col, vals)
          /\ pc' = next
          /\ err' = err
     ELSE /\ df' = df
          /\ pc' = "failed"
          /\ err' = "AttributeError"
  /\ UNCHANGED <<raw, csv, cols, out>>

LoadRaw == Stmt("load_raw", "normalize_columns", raw)

NormalizeColumns ==
  Stmt("normalize_columns", "clean_text", normalize_columns(df))

CleanText == Stmt("clean_text", "process_datetime", clean_text(df))

ProcessDatetime ==
  Stmt("process_datetime", "build_unified_notes", process_datetime(df))

BuildUnifiedNotes ==
  Stmt("build_unified_notes", "to_csv", build_unified_notes(df))

WriteIntermediate ==
  /\ pc = "to_csv"
  /\ csv' = to_csv(df)
  /\ df' = NoFrame
  /\ pc' = "read_csv"
  /\ UNCHANGED <<raw, cols, out, err>>

ReadIntermediate == Stmt("read_csv", "unified", read_csv(csv))

BuildUnified ==
  /\ pc = "unified"
  /\ IF unified_error(df) = ""
     THEN /\ df' = SetCol(df, "unified", unified(df))
          /\ pc' = "qc_category"
          /\ err' = err
     ELSE /\ df' = df
          /\ pc' = "failed"
          /\ err' = unified_error(df)
  /\ UNCHANGED <<raw, csv, cols, out>>

ScoreCategory ==
  ColStmt("qc_category", "qc_sub_cat", {"category", "resolution_notes"},
          "qc_category", qc_category(df))

ScoreSubcategory ==
  ColStmt("qc_sub_cat", "qc_read_prev", {"subcategory", "resolution_notes"},
          "qc_sub_cat", qc_sub_cat(df))

ScoreReadPrev ==
  ColStmt("qc_read_prev", "qc_routing", {"unified"},
          "qc_read_prev", qc_read_prev(df))

ScoreRouting ==
  ColStmt("qc_routing", "qc_ownership", {"unified"}, "qc_routing", qc_routing(df))

ScoreOwnership ==
  ColStmt("qc_ownership", "qc_timely", {"unified"},
          "qc_ownership", qc_ownership(df))

ScoreTimely ==
  /\ pc = "qc_timely"
  /\ IF ~HasCol(df, "response_time_hours")
     THEN df' = df /\ pc' = "failed" /\ err' = "AttributeError"
     ELSE IF \E i \in 1..Len(df.rows) :
               score_timely_raises(df.rows[i]["response_time_hours"])
     THEN df' = df /\ pc' = "failed" /\ err' = "TypeError"
     ELSE /\ df' = SetCol(df, "qc_timely", qc_timely(df))
          /\ pc' = "qc_priority"
          /\ err' = err
  /\ UNCHANGED <<raw, csv, cols, out>>

ScorePriority ==
  ColStmt("qc_priority", "qc_email_format", {"priority", "mttr_hours"},
          "qc_priority", qc_priority(df))

ScoreEmailFormat ==
  ColStmt("qc_email_format", "qc_teams", {"unified", "resolution_notes"},
          "qc_email_format", qc_email_format(df))

ScoreTeams == ColStmt("qc_teams", "qc_screenshot", {"unified"}, "qc_teams", qc_teams(df))

ScoreScreenshot ==
  ColStmt("qc_screenshot", "qc_doc_share", {"unified"},
          "qc_screenshot", qc_screenshot(df))

ScoreDocShare ==
  ColStmt("qc_doc_share", "qc_compliance", {"unified"},
          "qc_doc_share", qc_doc_share(df))

\* checkpoint 12 handing over to the aggregation, skipping checkpoint 13
ScoreCompliance_then_aggregate ==
  ColStmt("qc_compliance", "qc_cols",
          {"unified", "mttr_hours", "timeline"},
          "qc_compliance", qc_compliance(df))

ScoreCompliance ==
  ColStmt("qc_compliance", "qc_client_notes",
          {"unified", "mttr_hours", "timeline"},
          "qc_compliance", qc_compliance(df))

ScoreClientNotes ==
  ColStmt("qc_client_notes", "qc_cols", {"unified"},
          "qc_client_notes", qc_client_notes(df))

ListQcCols ==
  /\ pc = "qc_cols"
  /\ cols' = qc_cols(df)
  /\ pc' = "qc_total_65"
  /\ UNCHANGED <<raw, df, csv, out, err>>

Total == Stmt("qc_total_65", "qc_percent", SetCol(df, "qc_total_65", qc_total_65(df, cols)))

Percent == Stmt("qc_percent", "write", SetCol(df, "qc_percent", qc_percent(df)))

WriteOutput ==
  /\ pc = "write"
  /\ out' = to_csv(df)
  /\ pc' = "done"
  /\ UNCHANGED <<raw, df, csv, cols, err>>

Next ==
  \/ LoadRaw
  \/ NormalizeColumns
  \/ CleanText
  \/ ProcessDatetime
  \/ BuildUnifiedNotes
  \/ WriteIntermediate
  \/ ReadIntermediate
  \/ BuildUnified
  \/ ScoreCategory
  \/ ScoreSubcategory
  \/ ScoreReadPrev
  \/ ScoreRouting
  \/ ScoreOwnership
  \/ ScoreTimely
  \/ ScorePriority
  \/ ScoreEmailFormat
  \/ ScoreTeams
  \/ ScoreScreenshot
  \/ ScoreDocShare
  \/ ScoreCompliance
  \/ ScoreClientNotes
  \/ ListQcCols
  \/ Total
  \/ Percent
  \/ WriteOutput

(***************************************************************************)
(* Inputs: the raw exports the run starts from.  A ticket is a record of   *)
(* raw cells; a raw table has the export's own header spellings.           *)
(***************************************************************************)
Header ==
  [number |-> "Number", category |-> "Category",
   subcategory |-> "Subcategory", priority |-> "Priority",
   timeline |-> "Timeline", resolution_notes |-> "Resolution notes",
   work_notes |-> " Work notes ",
   comments_and_work_notes |-> "Comments and Work notes",
   comments |-> "Comments", opened |-> "Opened", updated |-> "Updated",
   resolved_at |-> "Resolved-at", qc_manual |-> "QC/Manual"]

Fields == DOMAIN Header

\* the columns every ordinary export carries
StdFields == Fields \ {"qc_manual"}

RawTable(fields, tickets) ==
  [cols |-> {Header[c] : c \in fields},
   rows |-> [i \in 1..Len(tickets) |->
               [h \in {Header[c] : c \in fields} |->
                  tickets[i][CHOOSE c \in fields : Header[c] = h]]]]

\* an empty spreadsheet cell is read as NaN
Txt(s) == IF s = "" THEN NaN ELSE StrV(s)

\* a ticket opened at time 100000, updated after resp and resolved after mttr
\* hundredths of an hour
Ticket(cat, sub, pri, tl, rn, wn, cw, cm, resp, mttr) ==
  [number |-> StrV("INC1000001"), category |-> Txt(cat),
   subcategory |-> Txt(sub), priority |-> Txt(pri), timeline |-> Txt(tl),
   resolution_notes |-> Txt(rn), work_notes |-> Txt(wn),
   comments_and_work_notes |-> Txt(cw), comments |-> Txt(cm),
   opened |-> TsV(100000), updated |-> TsV(100000 + resp),
   resolved_at |-> TsV(100000 + mttr), qc_manual |-> NumV(100)]

E2E_NOTES ==
  "Issue Reported: VPN down. Probable Cause: driver. Resolution Provided: reinstalled driver. Network fixed, user confirmed working fine."

HEADERS_ONLY == "Issue reported: x. Probable cause: y. Resolution provided: z."

LONG_NOTES ==
  "The user could not print from the laptop after the update, so the spooler service was restarted and the queue cleared."

HOLD == "We have placed the ticket on hold. "
STRIKE == "Strike 1: this is a reminder. "
CLOSURE == "We are closing the ticket. "
CONTACT == "Reach us on Connect Chat. "
SHOT == "See Screenshot.PNG. "

WorkNotes ==
  {"", "Fixed", HOLD \o STRIKE \o CLOSURE, HOLD \o STRIKE \o CLOSURE \o CONTACT,
   HOLD \o STRIKE \o CLOSURE \o CONTACT \o SHOT, SHOT, CONTACT,
   HOLD \o CLOSURE \o CONTACT, STRIKE \o CLOSURE \o CONTACT,
   HOLD \o STRIKE \o CONTACT, HOLD \o "Final notice. " \o CLOSURE \o CONTACT,
   "MS Teams call, thanks", "Shared on Teams", "Misrouted to the wrong queue",
   "Reassigned", "Reassigned, then reassigned again", "Incorrect routing",
   "Handed over to L2, followed up", "I contacted the user",
   "See previous update", "Guide on SharePoint /sites/it", "\\\\fs01\\docs",
   "This is nonsense", "Issue resolved", HEADERS_ONLY,
   LONG_NOTES \o " " \o LONG_NOTES}

ResNotes == {"", "Fixed", E2E_NOTES, HEADERS_ONLY, LONG_NOTES}

Base == Ticket("Network", "VPN", "P3", "", "Fixed", "", "", "", 100, 1000)

\* tickets varying the texts
TextTickets ==
  {Ticket("Network", "VPN", "P3", "", rn, wn, "", "", 100, 1000) :
     rn \in ResNotes, wn \in WorkNotes}

\* tickets varying priority and time to resolution
Priorities == {"", "P1 - Critical", "P2 - High", "P3", "p1/p2 review"}

MttrValues == {-50, 400, 401, 800, 801, 1000, 7200, 7201}

PriorityTickets ==
  {Ticket("Network", "VPN", pri, "", "Fixed", "", "", "", 100, m) :
     pri \in Priorities, m \in MttrValues}

\* the same ticket with one raw cell replaced
With(t, field, cell) == [t EXCEPT ![field] = cell]

\* resolved_at missing or unparseable: mttr_hours comes out undefined
UnresolvedTickets ==
  {With(Ticket("Network", "VPN", pri, tl, "Fixed", "", "", "", 100, 1000),
        "resolved_at", cell) :
     pri \in Priorities, tl \in {"", "SLA Breach"},
     cell \in {NaN, StrV("not a date")}}

\* tickets varying what checkpoint 12 reads
ComplianceTickets ==
  {Ticket("Network", "VPN", "P3", tl, "Fixed", wn, "", "", 100, m) :
     tl \in {"", "Met", "SLA Breach", "Breached, later met"},
     wn \in {"", "This is nonsense", "Stupid request"},
     m \in {1000, 7201}}

\* tickets varying the response time
TimelyTickets ==
  {Ticket("Network", "VPN", "P3", "", "Fixed", "", "", "", r, 1000) :
     r \in {-100, 400, 401, 2400, 2401}}
  \cup {With(Base, "updated", NaN)}

\* tickets varying category, subcategory and the notes they are looked up in
CategoryTickets ==
  {Ticket(cat, sub, "P3", "", rn, "", "", "", 100, 1000) :
     cat \in {"", "Network", "NA", "Hardware"}, sub \in {"", "VPN", "Outlook"},
     rn \in {"", "Fixed", E2E_NOTES, LONG_NOTES}}

\* tickets with no text at all and no timestamp
EmptyTickets ==
  {[Ticket(cat, sub, pri, "", "", "", "", "", 0, 0) EXCEPT
      !["opened"] = NaN, !["updated"] = NaN, !["resolved_at"] = NaN] :
     cat \in {"", "Network"}, sub \in {"", "VPN"}, pri \in {"", "P2 - High"}}

\* tickets whose phrases are spread over the four text fields
SpreadTickets ==
  {Ticket("Network", "VPN", "P3", "", CONTACT, CLOSURE, STRIKE, HOLD, 100, 1000),
   Ticket("Network", "VPN", "P3", "", "Fixed", "", HEADERS_ONLY, SHOT, 100, 1000),
   Ticket("Network", "VPN", "P1 - Critical", "Met", E2E_NOTES,
          "Followed up on MS Teams, thanks. See previous. " \o SHOT,
          "On SharePoint", "", 100, 400),
   Ticket("Network", "VPN", "P1 - Critical", "Met", E2E_NOTES,
          HOLD \o STRIKE \o CLOSURE \o CONTACT \o SHOT
            \o "Followed up on MS Teams, thanks. See previous.",
          "On SharePoint", "", 100, 400)}

\* two of the three section headers in the resolution notes, the third
\* nowhere or in another field
TWO_HEADERS == "Issue reported: x. Probable cause: y."
THIRD_HEADER == "Resolution provided: z."

HeaderTickets ==
  {Ticket("Network", "VPN", "P3", "", TWO_HEADERS, wn, "", cm, 100, 1000) :
     wn \in {"", THIRD_HEADER, HOLD \o STRIKE \o CLOSURE \o CONTACT},
     cm \in {"", THIRD_HEADER}}

Tickets ==
  HeaderTickets \cup TextTickets \cup PriorityTickets \cup UnresolvedTickets
    \cup ComplianceTickets \cup TimelyTickets \cup CategoryTickets
    \cup EmptyTickets \cup SpreadTickets

\* exports lacking one column
OptionalFields == StdFields \ {"number"}

PartialTables ==
  {RawTable(StdFields \ {c}, <<t>>) :
     c \in OptionalFields,
     t \in {Base, Ticket("Network", "VPN", "P3", "", E2E_NOTES, "", "", "",
                         100, 1000)}}

\* exports lacking the ticket identifier
UnnumberedTables ==
  {RawTable(StdFields \ {"number"}, <<t>>) : t \in SpreadTickets}

\* exports carrying a reviewer's own qc_ column, a mark or a deduction
ReviewedTables ==
  {RawTable(Fields, <<With(t, "qc_manual", v)>>) :
     t \in SpreadTickets \cup EmptyTickets,
     v \in {NumV(100), NumV(-40), NaN}}

\* batches of several tickets
MaxRows == 2

BatchPool ==
  {Base,
   Ticket("Network", "VPN", "P1 - Critical", "Met", E2E_NOTES,
          HOLD \o STRIKE \o CLOSURE \o CONTACT, "", "", 401, 401),
   Ticket("", "", "", "", "", "This is nonsense", "", "", 2401, 7201)}

RECURSIVE Batches(_)
Batches(n) ==
  IF n = 0 THEN {<<>>}
  ELSE {Append(b, t) : b \in Batches(n - 1), t \in BatchPool}

\* tickets with a text field made of digits only, alone and next to a ticket
\* whose fields are words
NumericTickets ==
  {With(Base, "work_notes", StrV("12345")),
   Ticket("05", "VPN", "P3", "", "5 users affected", "", "", "", 100, 400)}

NumericTables ==
  {RawTable(StdFields, <<t>>) : t \in NumericTickets}
    \cup {RawTable(StdFields, <<t, Base>>) : t \in NumericTickets}

BatchTables ==
  UNION {{RawTable(StdFields, b) : b \in Batches(n)} : n \in 2..MaxRows}

RawTables ==
  {RawTable(StdFields, <<t>>) : t \in Tickets}
    \cup PartialTables \cup UnnumberedTables \cup ReviewedTables
    \cup BatchTables \cup NumericTables

Init ==
  /\ raw \in RawTables
  /\ df = NoFrame
  /\ csv = NoFrame
  /\ cols = {}
  /\ out = NoFrame
  /\ pc = "load_raw"
  /\ err = ""

Spec == Init /\ [][Next]_vars

(***************************************************************************)
(* Properties.  They read the table main() emitted (out) and, for the      *)
(* values a score was computed from, the frame it was emitted from (df).   *)
(***************************************************************************)
QC_COLUMNS ==
  <<"qc_category", "qc_sub_cat", "qc_read_prev", "qc_routing", "qc_ownership",
    "qc_timely", "qc_priority", "qc_email_format", "qc_teams", "qc_screenshot",
    "qc_doc_share", "qc_compliance", "qc_client_notes">>

Emitted == pc = "done"

Rows == 1..Len(out.rows)

Score(i, c) == out.rows[i][c].n

RECURSIVE SumScores(_, _)
SumScores(i, j) ==
  IF j = 0 THEN 0 ELSE SumScores(i, j - 1) + Score(i, QC_COLUMNS[j])

\* the lower-cased unified text of row i
UnifiedLower(i) == Lower(df.rows[i]["unified"].s)

\* the lower-cased resolution notes of row i as the scorers see them
NotesLower(i) == Lower(PyStr(df.rows[i]["resolution_notes"]))

Mentions(t, kws) == \E j \in 1..Len(kws) : IsSubstr(kws[j], t)

MentionsAll(t, kws) == \A j \in 1..Len(kws) : IsSubstr(kws[j], t)

\* C1: every emitted ticket has thirteen integer scores between 0 and 5, a
\* qc_total between 0 and 65 and a qc_percent between 0 and 100.
C1_BoundedRange ==
  Emitted =>
    \A i \in Rows :
      /\ \A j \in 1..Len(QC_COLUMNS) :
           /\ out.rows[i][QC_COLUMNS[j]].k = "num"
           /\ Score(i, QC_COLUMNS[j]) \in 0..5
      /\ Score(i, "qc_total_65") \in 0..65
      /\ Score(i, "qc_percent") \in 0..1000

\* C2: every emitted ticket's qc_total_65 is the sum of its thirteen
\* checkpoint scores, and qc_percent is qc_total_65 / 65 * 100 to one decimal.
C2_AggregateIdentity ==
  Emitted =>
    \A i \in Rows :
      /\ Score(i, "qc_total_65") = SumScores(i, Len(QC_COLUMNS))
      /\ LET d == 65 * Score(i, "qc_percent") - 1000 * Score(i, "qc_total_65")
         IN  2 * d <= 65 /\ -2 * d <= 65

\* a hold, a strike-1 and a closure phrase but no contact phrase
HoldStrikeClosureOnly(i) ==
  /\ Mentions(UnifiedLower(i), PHR_HOLD)
  /\ Mentions(UnifiedLower(i), PHR_STRIKE1)
  /\ Mentions(UnifiedLower(i), PHR_CLOSURE)
  /\ ~Mentions(UnifiedLower(i), PHR_CONTACT)

\* C3 as stated: with a hold, a strike-1 and a closure phrase but no contact
\* phrase the workflow detector is false and checkpoint 8 scores 3, whatever
\* the resolution notes are.
C3_Original ==
  Emitted =>
    \A i \in Rows :
      HoldStrikeClosureOnly(i) =>
        /\ ~detect_three_strike_flow(df.rows[i]["unified"])
        /\ Score(i, "qc_email_format") = 3

\* C3 amended: with a hold, a strike-1 and a closure phrase but no contact
\* phrase the workflow detector is false and checkpoint 8 scores 3 when the
\* resolution notes carry all three section headers and 0 when they do not;
\* it never scores 5.
C3_Amended ==
  Emitted =>
    \A i \in Rows :
      HoldStrikeClosureOnly(i) =>
        /\ ~detect_three_strike_flow(df.rows[i]["unified"])
        /\ Score(i, "qc_email_format") =
             IF MentionsAll(NotesLower(i), RESOLUTION_HEADERS) THEN 3 ELSE 0

C3_Witness ==
  /\ Emitted
  /\ \E i \in Rows :
       /\ HoldStrikeClosureOnly(i)
       /\ MentionsAll(NotesLower(i), RESOLUTION_HEADERS)
       /\ ~detect_three_strike_flow(df.rows[i]["unified"])
       /\ Score(i, "qc_email_format") = 3

\* C4: a ticket whose mttr_hours is undefined scores the neutral 3 on
\* checkpoint 7, whatever its priority.
C4_UndefinedIsNeutral ==
  Emitted =>
    \A i \in Rows :
      IsNa(df.rows[i]["mttr_hours"]) => Score(i, "qc_priority") = 3

\* the lower-cased priority of row i as score_priority sees it
PriorityLower(i) == Lower(PyStr(df.rows[i]["priority"]))

\* C5: with a numeric mttr_hours checkpoint 7 is 5 or 2 around 4 hours for a
\* priority containing "p1", else 5 or 3 around 8 hours for one containing
\* "p2", else 5 or 2 around 72 hours, the threshold itself scoring 5; so
\* "P1 - Critical" scores 5 at 4.0 hours and 2 at 4.01 hours.
C5_PriorityThresholds ==
  Emitted =>
    \A i \in Rows :
      LET m == df.rows[i]["mttr_hours"]
          p == PriorityLower(i)
          q == Score(i, "qc_priority")
      IN  m.k = "num" =>
            /\ IsSubstr("p1", p) => q = (IF m.n <= 400 THEN 5 ELSE 2)
            /\ ~IsSubstr("p1", p) /\ IsSubstr("p2", p) =>
                 q = (IF m.n <= 800 THEN 5 ELSE 3)
            /\ ~IsSubstr("p1", p) /\ ~IsSubstr("p2", p) =>
                 q = (IF m.n <= 7200 THEN 5 ELSE 2)
            /\ df.rows[i]["priority"] = StrV("P1 - Critical") /\ m.n = 400
                 => q = 5
            /\ df.rows[i]["priority"] = StrV("P1 - Critical") /\ m.n = 401
                 => q = 2

C5_Witness ==
  /\ Emitted
  /\ Len(out.rows) = 1
  /\ df.rows[1]["priority"] = StrV("P1 - Critical")
  /\ df.rows[1]["mttr_hours"] = NumV(400)
  /\ Score(1, "qc_priority") = 5

\* C6: a ticket whose unified text contains a blacklisted term scores 0 on
\* checkpoint 12, whatever its timeline and mttr_hours.
C6_ProfanityOverrides ==
  Emitted =>
    \A i \in Rows :
      Mentions(UnifiedLower(i), BAD_LANGUAGE) => Score(i, "qc_compliance") = 0

C6_Witness ==
  /\ Emitted
  /\ \E i \in Rows :
       /\ Mentions(UnifiedLower(i), BAD_LANGUAGE)
       /\ IsSubstr("met", Lower(PyStr(df.rows[i]["timeline"])))
       /\ Score(i, "qc_compliance") = 0

\* the full escalation workflow: hold, some strike, closure and contact
FullWorkflow(i) ==
  /\ Mentions(UnifiedLower(i), PHR_HOLD)
  /\ \/ Mentions(UnifiedLower(i), PHR_STRIKE1)
     \/ Mentions(UnifiedLower(i), PHR_STRIKE2)
     \/ Mentions(UnifiedLower(i), PHR_STRIKE3)
  /\ Mentions(UnifiedLower(i), PHR_CLOSURE)
  /\ Mentions(UnifiedLower(i), PHR_CONTACT)

\* C7: checkpoint 10 is 5 when the unified text shows a screenshot or an
\* attachment, else 0 when it shows the full escalation workflow, else 3.
C7_ScreenshotCoupling ==
  Emitted =>
    \A i \in Rows :
      Score(i, "qc_screenshot") =
        IF Mentions(UnifiedLower(i), PHR_SCREENSHOT) THEN 5
        ELSE IF FullWorkflow(i) THEN 0
        ELSE 3

C7_Witness ==
  /\ Emitted
  /\ \E i \in Rows :
       /\ FullWorkflow(i)
       /\ ~Mentions(UnifiedLower(i), PHR_SCREENSHOT)
       /\ Score(i, "qc_screenshot") = 0

\* the ticket of the end-to-end example: headers, category term and "user
\* confirmed" in the resolution notes, no workflow phrase anywhere, P3, 10 h
EndToEndTicket(i) ==
  /\ MentionsAll(NotesLower(i), RESOLUTION_HEADERS)
  /\ df.rows[i]["category"].k = "str"
  /\ IsSubstr(Lower(df.rows[i]["category"].s), NotesLower(i))
  /\ IsSubstr("user confirmed", NotesLower(i))
  /\ ~Mentions(UnifiedLower(i), PHR_HOLD)
  /\ ~Mentions(UnifiedLower(i), PHR_STRIKE1)
  /\ ~Mentions(UnifiedLower(i), PHR_STRIKE2)
  /\ ~Mentions(UnifiedLower(i), PHR_STRIKE3)
  /\ ~Mentions(UnifiedLower(i), PHR_CLOSURE)
  /\ ~Mentions(UnifiedLower(i), PHR_CONTACT)
  /\ df.rows[i]["priority"] = StrV("P3")
  /\ df.rows[i]["mttr_hours"] = NumV(1000)

\* C8: the end-to-end ticket scores 5 on checkpoint 1, 3 on checkpoint 8, 5
\* on checkpoint 7 and 5 on checkpoint 13.
C8_EndToEnd ==
  Emitted =>
    \A i \in Rows :
      EndToEndTicket(i) =>
        /\ Score(i, "qc_category") = 5
        /\ Score(i, "qc_email_format") = 3
        /\ Score(i, "qc_priority") = 5
        /\ Score(i, "qc_client_notes") = 5

C8_Witness ==
  /\ Emitted
  /\ \E i \in Rows :
       /\ EndToEndTicket(i)
       /\ df.rows[i]["resolution_notes"] = StrV(E2E_NOTES)
       /\ Score(i, "qc_category") = 5
       /\ Score(i, "qc_client_notes") = 5

\* a raw ticket with every free-text field empty and every timestamp missing
BlankTicket(r) ==
  /\ \A j \in 1..Len(UNIFIED_COLS) :
       \A h \in DOMAIN r : NormalizeName(h) = UNIFIED_COLS[j] => IsNa(r[h])
  /\ \A j \in 1..Len(DATE_COLS) :
       \A h \in DOMAIN r : NormalizeName(h) = DATE_COLS[j] => IsNa(r[h])

\* C9: a run over blank tickets carrying every column does not fail, and each
\* blank ticket is emitted with checkpoints 1, 2, 3, 8, 9, 11 and 13 at 0,
\* checkpoint 4 at 5 and checkpoints 5 and 10 at 3.
C9_BlankTicketFloor ==
  (\A c \in StdFields : Header[c] \in raw.cols) =>
    /\ (\A i \in 1..Len(raw.rows) : BlankTicket(raw.rows[i])) => pc # "failed"
    /\ Emitted =>
         \A i \in Rows :
           BlankTicket(raw.rows[i]) =>
             /\ Score(i, "qc_category") = 0
             /\ Score(i, "qc_sub_cat") = 0
             /\ Score(i, "qc_read_prev") = 0
             /\ Score(i, "qc_email_format") = 0
             /\ Score(i, "qc_teams") = 0
             /\ Score(i, "qc_doc_share") = 0
             /\ Score(i, "qc_client_notes") = 0
             /\ Score(i, "qc_routing") = 5
             /\ Score(i, "qc_ownership") = 3
             /\ Score(i, "qc_screenshot") = 3
             /\ out.rows[i]["qc_total_65"].k = "num"
             /\ out.rows[i]["qc_percent"].k = "num"

\* the raw export lacks an optional column
LacksOptionalColumn ==
  \E c \in OptionalFields : Header[c] \notin raw.cols

\* C10: a run over an export lacking an optional column does not fail, and
\* emits all thirteen scores, qc_total_65 and qc_percent for every row.
C10_MissingColumnTolerated ==
  LacksOptionalColumn =>
    /\ pc # "failed"
    /\ Emitted =>
         \A i \in Rows :
           /\ \A j \in 1..Len(QC_COLUMNS) : QC_COLUMNS[j] \in out.cols
           /\ "qc_total_65" \in out.cols
           /\ "qc_percent" \in out.cols

\* some checkpoint score has been computed
ScoringStarted == \E j \in 1..Len(QC_COLUMNS) : QC_COLUMNS[j] \in df.cols

\* C11: a run aborts only for a missing required column such as the ticket
\* identifier, and only while it is still in its loaded state: when it aborts
\* neither the unified text nor any checkpoint score has been computed.
C11_AbortOnlyBeforeScoring ==
  pc = "failed" =>
    /\ Header["number"] \notin raw.cols
    /\ "unified" \notin df.cols
    /\ ~ScoringStarted

\* every row carries all thirteen checkpoint scores
AllScored(f) == \A j \in 1..Len(QC_COLUMNS) : QC_COLUMNS[j] \in f.cols

\* the driver's state: 0 before the table is loaded, 1 LOADED, 2 SCORED,
\* 3 AGGREGATED
Phase ==
  IF pc \in {"load_raw", "normalize_columns", "clean_text", "process_datetime",
             "build_unified_notes", "to_csv", "read_csv"} THEN 0
  ELSE IF "qc_total_65" \in df.cols /\ "qc_percent" \in df.cols THEN 3
  ELSE IF AllScored(df) THEN 2
  ELSE 1

\* C12: the driver only ever moves from one state to the next one, LOADED to
\* SCORED to AGGREGATED; qc_total_65 and qc_percent are attached only to a
\* table that has all thirteen scores, no score changes once the total is
\* attached, and the output is written only in AGGREGATED, from that table.
C12_PhaseOrder ==
  [][/\ Phase' \in {Phase, Phase + 1}
     /\ ("qc_total_65" \in df'.cols \/ "qc_percent" \in df'.cols)
          => AllScored(df')
     /\ "qc_total_65" \in df.cols =>
          \A i \in 1..Len(df.rows) : \A j \in 1..Len(QC_COLUMNS) :
            df'.rows[i][QC_COLUMNS[j]] = df.rows[i][QC_COLUMNS[j]]
     /\ out' # out => Phase = 3 /\ out' = to_csv(df)]_vars

C12_Witness ==
  /\ Emitted
  /\ Phase = 3
  /\ AllScored(out)
  /\ out = to_csv(df)

\* the table both scripts emit for the export t, computed in one piece; it
\* is defined for exports that carry every column the scorer reads
LoadedFrom(t) ==
  read_csv(to_csv(build_unified_notes(
    process_datetime(clean_text(normalize_columns(t))))))

\* the table emitted for the export t, whose columns are those of a run that
\* got past every column lookup; no table when the unified text raises
ScoredFrom(t) ==
  LET f0 == LoadedFrom(t)
      f1 == SetCol(f0, "unified", unified(f0))
      f2 == SetCol(f1, "qc_category", qc_category(f1))
      f3 == SetCol(f2, "qc_sub_cat", qc_sub_cat(f2))
      f4 == SetCol(f3, "qc_read_prev", qc_read_prev(f3))
      f5 == SetCol(f4, "qc_routing", qc_routing(f4))
      f6 == SetCol(f5, "qc_ownership", qc_ownership(f5))
      f7 == SetCol(f6, "qc_timely", qc_timely(f6))
      f8 == SetCol(f7, "qc_priority", qc_priority(f7))
      f9 == SetCol(f8, "qc_email_format", qc_email_format(f8))
      f10 == SetCol(f9, "qc_teams", qc_teams(f9))
      f11 == SetCol(f10, "qc_screenshot", qc_screenshot(f10))
      f12 == SetCol(f11, "qc_doc_share", qc_doc_share(f11))
      f13 == SetCol(f12, "qc_compliance", qc_compliance(f12))
      f14 == SetCol(f13, "qc_client_notes", qc_client_notes(f13))
      f15 == SetCol(f14, "qc_total_65", qc_total_65(f14, qc_cols(f14)))
  IN  IF unified_error(f0) # "" THEN NoFrame
      ELSE to_csv(SetCol(f15, "qc_percent", qc_percent(f15)))

\* the export holding only ticket i of the export t
Alone(t, i) == [cols |-> t.cols, rows |-> <<t.rows[i]>>]

\* C13: in every emitted table, tickets with the same field values have the
\* same scores, total and percentage, and every ticket has exactly the row it
\* gets when it is scored alone, whatever its position and its neighbours.
C13_RowIndependent ==
  Emitted =>
    /\ \A i, j \in Rows :
         raw.rows[i] = raw.rows[j] => out.rows[i] = out.rows[j]
    /\ \A i \in Rows : ScoredFrom(Alone(raw, i)).rows = <<out.rows[i]>>

\* the unified text the fixed field order gives ticket i
InFixedOrder(i) ==
  StrV(FillNa(df.rows[i]["resolution_notes"]) \o "\n"
       \o FillNa(df.rows[i]["work_notes"]) \o "\n"
       \o FillNa(df.rows[i]["comments_and_work_notes"]) \o "\n"
       \o FillNa(df.rows[i]["comments"]))

\* C14: for every ticket of an emitted table, the unified text built by the
\* scorer and the unified text built by the loader are both the four notes
\* fields in the order resolution notes, work notes, comments and work notes,
\* comments, missing values empty, joined by three newlines.
C14_UnifiedOrder ==
  Emitted =>
    \A i \in Rows :
      /\ df.rows[i]["unified"] = InFixedOrder(i)
      /\ df.rows[i]["unified_text"] = InFixedOrder(i)

\* C15: every checkpoint score computed so far, for every ticket, is one of
\* 0, 2, 3 and 5; none is 1 or 4.
C15_ScoreValues ==
  \A j \in 1..Len(QC_COLUMNS) :
    QC_COLUMNS[j] \in df.cols =>
      \A i \in 1..Len(df.rows) :
        df.rows[i][QC_COLUMNS[j]] \in {NumV(0), NumV(2), NumV(3), NumV(5)}

\* a scored ticket whose thirteen scores take all four values
C15_Witness ==
  /\ Emitted
  /\ \E i \in Rows :
       {Score(i, QC_COLUMNS[j]) : j \in 1..Len(QC_COLUMNS)} = {0, 2, 3, 5}

\* the routing phrases of ticket i: how often they occur in its unified
\* text, and how many of the four occur at all
RoutingOccurrences(i) ==
  SumOccurrences(PHR_ROUTING, Len(PHR_ROUTING), UnifiedLower(i))

RoutingPhrases(i) ==
  Cardinality({j \in 1..Len(PHR_ROUTING) :
                 IsSubstr(PHR_ROUTING[j], UnifiedLower(i))})

\* C16 as stated: checkpoint 4 is 5 for no occurrence of a routing phrase in
\* the unified text, 3 for exactly one occurrence and 0 for two or more, two
\* occurrences of the same phrase counting as two.
C16_Original ==
  Emitted =>
    \A i \in Rows :
      Score(i, "qc_routing") =
        IF RoutingOccurrences(i) = 0 THEN 5
        ELSE IF RoutingOccurrences(i) = 1 THEN 3
        ELSE 0

\* C16: checkpoint 4 is 5 when none of the four routing phrases occurs in the
\* unified text, 3 when exactly one of them occurs, however often, and 0 when
\* two or more different phrases occur.
C16_Amended ==
  Emitted =>
    \A i \in Rows :
      Score(i, "qc_routing") =
        IF RoutingPhrases(i) = 0 THEN 5
        ELSE IF RoutingPhrases(i) = 1 THEN 3
        ELSE 0

\* a ticket repeating one routing phrase, scored 3
C16_Witness ==
  /\ Emitted
  /\ \E i \in Rows :
       /\ RoutingPhrases(i) = 1
       /\ RoutingOccurrences(i) >= 2
       /\ Score(i, "qc_routing") = 3

\* the lower-cased timeline of row i as score_compliance sees it
TimelineLower(i) == Lower(PyStr(df.rows[i]["timeline"]))

\* C17: the statement of checkpoint 12, given its three columns, always goes
\* on to the next statement, and a ticket without blacklisted term gets 5 for
\* a timeline containing "met" (also next to "breach"), else 2 for a timeline
\* containing "breach", else 2 for mttr_hours above 72 hours, else 5.
C17_ComplianceBranches ==
  [][(pc = "qc_compliance"
        /\ {"unified", "mttr_hours", "timeline"} \subseteq df.cols) =>
       /\ pc' = "qc_client_notes"
       /\ \A i \in 1..Len(df.rows) :
            ~Mentions(UnifiedLower(i), BAD_LANGUAGE) =>
              df'.rows[i]["qc_compliance"].n =
                IF IsSubstr("met", TimelineLower(i)) THEN 5
                ELSE IF IsSubstr("breach", TimelineLower(i)) THEN 2
                ELSE IF df.rows[i]["mttr_hours"].k = "num"
                          /\ df.rows[i]["mttr_hours"].n > 7200 THEN 2
                ELSE 5]_vars

\* a ticket late by its mttr_hours whose timeline says both "breach" and
\* "met", without blacklisted term, scored 5
C17_Witness ==
  /\ Emitted
  /\ \E i \in Rows :
       /\ ~Mentions(UnifiedLower(i), BAD_LANGUAGE)
       /\ IsSubstr("met", TimelineLower(i))
       /\ IsSubstr("breach", TimelineLower(i))
       /\ df.rows[i]["mttr_hours"] = NumV(7201)
       /\ Score(i, "qc_compliance") = 5

\* C18: the statement of checkpoint 6, given the response_time_hours column,
\* always goes on to the next statement; every response time is a number or
\* undefined, and the score is 3 for undefined, 5 up to and including 4
\* hours (negative durations too), 3 up to and including 24 hours, 0 above.
C18_TimelyTotal ==
  [][(pc = "qc_timely" /\ "response_time_hours" \in df.cols) =>
       /\ pc' = "qc_priority"
       /\ \A i \in 1..Len(df.rows) :
            LET h == df.rows[i]["response_time_hours"]
            IN  /\ h.k \in {"num", "nan"}
                /\ df'.rows[i]["qc_timely"].n =
                     IF h.k = "nan" THEN 3
                     ELSE IF h.n <= 400 THEN 5
                     ELSE IF h.n <= 2400 THEN 3
                     ELSE 0]_vars

\* a ticket updated an hour before it was opened, scored 5
C18_Witness ==
  /\ Emitted
  /\ \E i \in Rows :
       /\ df.rows[i]["response_time_hours"] = NumV(-100)
       /\ Score(i, "qc_timely") = 5

\* C19: every emitted ticket whose category is missing scores 0 on checkpoint
\* 1, and every one whose subcategory is missing scores 0 on checkpoint 2,
\* whatever its resolution notes.
C19_AbsentScoresZero ==
  Emitted =>
    \A i \in Rows :
      /\ IsNa(df.rows[i]["category"]) => Score(i, "qc_category") = 0
      /\ IsNa(df.rows[i]["subcategory"]) => Score(i, "qc_sub_cat") = 0

\* C20: every emitted ticket has a qc_total_65 of at least 7.
C20_TotalFloor ==
  Emitted => \A i \in Rows : Score(i, "qc_total_65") >= 7

\* the three section headers in the resolution notes of ticket i
HasHeaders(i) == MentionsAll(NotesLower(i), RESOLUTION_HEADERS)

\* C21: for every emitted ticket the workflow detector implies a contact
\* phrase; checkpoint 8 is 5 exactly when the resolution notes have the three
\* headers and the unified text the full escalation workflow, 0 exactly when
\* the headers and every contact phrase are missing; and checkpoint 10 being 0
\* implies checkpoint 8 being at least 3.
C21_EmailFormatCoupling ==
  Emitted =>
    \A i \in Rows :
      /\ detect_three_strike_flow(df.rows[i]["unified"]) =>
           Mentions(UnifiedLower(i), PHR_CONTACT)
      /\ Score(i, "qc_email_format") = 5 <=> (HasHeaders(i) /\ FullWorkflow(i))
      /\ Score(i, "qc_email_format") = 0 <=>
           (~HasHeaders(i) /\ ~Mentions(UnifiedLower(i), PHR_CONTACT))
      /\ Score(i, "qc_screenshot") = 0 => Score(i, "qc_email_format") >= 3

\* a ticket with the full workflow, no screenshot and no headers: checkpoint
\* 10 is 0 and checkpoint 8 is 3
C21_Witness ==
  /\ Emitted
  /\ \E i \in Rows :
       /\ FullWorkflow(i)
       /\ ~HasHeaders(i)
       /\ Score(i, "qc_screenshot") = 0
       /\ Score(i, "qc_email_format") = 3

\* the three section headers somewhere in the unified text of ticket i
HeadersInUnified(i) == MentionsAll(UnifiedLower(i), RESOLUTION_HEADERS)

\* C23: for every emitted ticket checkpoint 8 takes the section headers from
\* the resolution notes alone and needs all three of them there, so without
\* a contact phrase it is 0 unless the resolution notes hold the three
\* headers, wherever else headers appear; the contact and workflow phrases
\* count in whatever field they stand: a contact phrase gives at least 3, and
\* the full workflow with the three headers in the resolution notes gives 5.
C23_HeaderScope ==
  Emitted =>
    \A i \in Rows :
      /\ ~Mentions(UnifiedLower(i), PHR_CONTACT) =>
           Score(i, "qc_email_format") = IF HasHeaders(i) THEN 3 ELSE 0
      /\ Mentions(UnifiedLower(i), PHR_CONTACT) =>
           Score(i, "qc_email_format") >= 3
      /\ (HasHeaders(i) /\ FullWorkflow(i)) => Score(i, "qc_email_format") = 5
      /\ (HeadersInUnified(i) /\ ~HasHeaders(i)) =>
           Score(i, "qc_email_format") < 5

\* a ticket with two headers in the resolution notes and the third in the
\* work notes, without contact phrase, scored 0
C23_Witness ==
  /\ Emitted
  /\ \E i \in Rows :
       /\ HeadersInUnified(i)
       /\ ~HasHeaders(i)
       /\ IsSubstr(RESOLUTION_HEADERS[1], NotesLower(i))
       /\ IsSubstr(RESOLUTION_HEADERS[2], NotesLower(i))
       /\ IsSubstr(RESOLUTION_HEADERS[3], Lower(PyStr(df.rows[i]["work_notes"])))
       /\ ~Mentions(UnifiedLower(i), PHR_CONTACT)
       /\ Score(i, "qc_email_format") = 0

\* the thirteen checkpoint columns, and the qc_ columns of the input table
Checkpoints == {QC_COLUMNS[j] : j \in 1..Len(QC_COLUMNS)}

InputQcCols == {c \in csv.cols : StartsWithQc(c)}

\* C22 as stated: in every emitted table the columns summed are the thirteen
\* checkpoint columns and the qc_ columns of the input, qc_total_65 is their
\* sum for every ticket, and a qc_total_65 that is the sum of the thirteen
\* and at most 65 occurs only if the input has no other qc_ column.
C22_Original ==
  Emitted =>
    /\ cols = Checkpoints \cup InputQcCols
    /\ \A i \in Rows :
         /\ Score(i, "qc_total_65") = SumCells(out.rows[i], cols)
         /\ InputQcCols = {} =>
              /\ Score(i, "qc_total_65") = SumScores(i, Len(QC_COLUMNS))
              /\ Score(i, "qc_total_65") <= 65
         /\ (/\ Score(i, "qc_total_65") = SumScores(i, Len(QC_COLUMNS))
             /\ Score(i, "qc_total_65") <= 65) => InputQcCols = {}

\* C22 amended: in every emitted table the columns summed are the thirteen
\* checkpoint columns and the qc_ columns of the input, qc_total_65 is their
\* sum for every ticket, missing values left out; it is the sum of the
\* thirteen, and at most 65, whenever the input has no other qc_ column, and
\* otherwise exceeds the sum of the thirteen by the defined values of the
\* other qc_ columns.
C22_Amended ==
  Emitted =>
    /\ cols = Checkpoints \cup InputQcCols
    /\ \A i \in Rows :
         /\ Score(i, "qc_total_65") = SumCells(out.rows[i], cols)
         /\ InputQcCols = {} =>
              /\ Score(i, "qc_total_65") = SumScores(i, Len(QC_COLUMNS))
              /\ Score(i, "qc_total_65") <= 65
         /\ Score(i, "qc_total_65") - SumScores(i, Len(QC_COLUMNS)) =
              SumCells(df.rows[i], InputQcCols)

\* a ticket whose export has a qc_manual column with nothing in it: the
\* column is summed and the total is still the sum of the thirteen
C22_Witness ==
  /\ Emitted
  /\ "qc_manual" \in cols
  /\ \E i \in Rows :
       /\ IsNa(df.rows[i]["qc_manual"])
       /\ Score(i, "qc_total_65") = SumScores(i, Len(QC_COLUMNS))
       /\ Score(i, "qc_total_65") <= 65

====
